---- MODULE Spec2Model ----
(***************************************************************************)
(* hubfs: the path-resolution and handle-management engine of hubfs.go.    *)
(*                                                                         *)
(* Strings are sequences of one-character strings, so that the string      *)
(* functions the code uses (strings.Split, strings.ReplaceAll,             *)
(* strings.TrimPrefix, path.Join, path.Clean) are computed, not assumed.   *)
(***************************************************************************)
EXTENDS Integers, Sequences, FiniteSets, TLC

(***************************************************************************)
(* Go string functions                                                     *)
(***************************************************************************)

\* strings.HasPrefix(s, p)
HasPrefix(s, p) ==
    /\ Len(p) <= Len(s)
    /\ SubSeq(s, 1, Len(p)) = p

\* strings.HasSuffix(s, p)
HasSuffix(s, p) ==
    /\ Len(p) <= Len(s)
    /\ SubSeq(s, Len(s) - Len(p) + 1, Len(s)) = p

\* strings.TrimPrefix(s, p)
TrimPrefix(s, p) ==
    IF HasPrefix(s, p) THEN SubSeq(s, Len(p) + 1, Len(s)) ELSE s

\* strings.TrimSuffix(s, p)
TrimSuffix(s, p) ==
    IF HasSuffix(s, p) THEN SubSeq(s, 1, Len(s) - Len(p)) ELSE s

\* strings.ReplaceAll(s, old, new) for one-character old and new
ReplaceAll(s, old, new) ==
    [i \in 1..Len(s) |-> IF s[i] = old THEN new ELSE s[i]]

\* strings.IndexFunc(s, func(r) bool { return ch == r }) /= -1
ContainsChar(s, ch) ==
    \E i \in 1..Len(s) : s[i] = ch

\* strings.Split(s, sep) for a one-character sep: Len(result) = 1 + the
\* number of separators in s; Split of the empty string is <<"">>.
RECURSIVE SplitFrom(_, _, _, _)
SplitFrom(s, sep, i, cur) ==
    IF i > Len(s) THEN <<cur>>
    ELSE IF s[i] = sep THEN <<cur>> \o SplitFrom(s, sep, i + 1, <<>>)
    ELSE SplitFrom(s, sep, i + 1, Append(cur, s[i]))

Split(s, sep) == SplitFrom(s, sep, 1, <<>>)

\* strings.Join(elems, sep) for a one-character sep
RECURSIVE JoinSep(_, _)
JoinSep(elems, sep) ==
    IF Len(elems) = 0 THEN <<>>
    ELSE IF Len(elems) = 1 THEN elems[1]
    ELSE elems[1] \o <<sep>> \o JoinSep(Tail(elems), sep)

(***************************************************************************)
(* Go package path: Clean and Join                                         *)
(***************************************************************************)

DotDot == <<".", ".">>

\* The component stack of path.Clean: empty and "." components are dropped,
\* ".." removes the component before it; at the root it is dropped, and in
\* a relative path with nothing to remove it is kept.
RECURSIVE CleanComps(_, _, _)
CleanComps(comps, rooted, out) ==
    IF Len(comps) = 0 THEN out
    ELSE LET c == Head(comps)
             rest == Tail(comps)
         IN  IF c = <<>> \/ c = <<".">> THEN CleanComps(rest, rooted, out)
             ELSE IF c = DotDot THEN
                 IF Len(out) > 0 /\ out[Len(out)] /= DotDot
                 THEN CleanComps(rest, rooted, SubSeq(out, 1, Len(out) - 1))
                 ELSE IF rooted THEN CleanComps(rest, rooted, out)
                 ELSE CleanComps(rest, rooted, Append(out, c))
             ELSE CleanComps(rest, rooted, Append(out, c))

\* path.Clean(p)
Clean(p) ==
    IF p = <<>> THEN <<".">>
    ELSE LET rooted == p[1] = "/"
             out == CleanComps(Split(p, "/"), rooted, <<>>)
         IN  IF rooted THEN <<"/">> \o JoinSep(out, "/")
             ELSE IF Len(out) = 0 THEN <<".">>
             ELSE JoinSep(out, "/")

\* The elements of a path.Join call from the first non-empty one on.
RECURSIVE DropEmpty(_)
DropEmpty(elems) ==
    IF Len(elems) = 0 THEN <<>>
    ELSE IF Head(elems) = <<>> THEN DropEmpty(Tail(elems))
    ELSE elems

\* path.Join(elems...)
Join(elems) ==
    LET e == DropEmpty(elems)
    IN  IF Len(e) = 0 THEN <<>> ELSE Clean(JoinSep(e, "/"))

\* split(path) of hubfs.go
split(path) ==
    LET comp == Tail(Split(path, "/"))
    IN  IF Len(comp) = 1 /\ comp[1] = <<>> THEN <<>> ELSE comp

(***************************************************************************)
(* Errors and errnos                                                       *)
(***************************************************************************)

ENOENT == 2
EIO == 5
EINVAL == 22

\* fuseErrc(err)
fuseErrc(err) ==
    IF err = "ErrNotFound" THEN -ENOENT ELSE -EIO

(***************************************************************************)
(* The provider: one fixed content, looked up case-insensitively for       *)
(* owners, repositories and one tree entry, so that the authoritative      *)
(* name can differ from the name asked for.  Objects are identifiers       *)
(* (strings); "nil" is the nil interface value.                            *)
(*                                                                         *)
(*   owners        A (asked as a or A), HEAD, .g                           *)
(*   repositories  A/P (asked as p or P), A/E (E is an empty repository)   *)
(*   refs of P     refs/heads/m, refs/heads/f/x, refs/tags/v,              *)
(*                 refs/pull/1, and the temporary ref c                    *)
(*   tree          d/ (directory), d/f (file), R (file, asked as r or R),  *)
(*                 l -> d (symlink), k -> k (symlink), s (submodule),      *)
(*                 b (file)                                                *)
(***************************************************************************)

Nil == "nil"

RefsHeads == <<"r", "e", "f", "s", "/", "h", "e", "a", "d", "s", "/">>
RefsTags == <<"r", "e", "f", "s", "/", "t", "a", "g", "s", "/">>
HEAD == <<"H", "E", "A", "D">>

Ok(obj) == [obj |-> obj, err |-> "nil"]
Err(e) == [obj |-> Nil, err |-> e]

\* Owner.Name()
OwnerName(o) ==
    CASE o = "oA" -> <<"A">>
      [] o = "oHEAD" -> HEAD
      [] o = "oDot" -> <<".", "g">>

\* Client.OpenOwner(name)
OpenOwner(c) ==
    CASE c \in {<<"a">>, <<"A">>} -> Ok("oA")
      [] c = HEAD -> Ok("oHEAD")
      [] c = <<".", "g">> -> Ok("oDot")
      [] OTHER -> Err("ErrNotFound")

\* Repository.Name() of the repository OpenRepository returned
RepositoryName(r) ==
    CASE r = "rP" -> <<"P">>
      [] r = "rE" -> <<"E">>

\* Client.OpenRepository(owner, name)
OpenRepository(owner, c) ==
    CASE owner = "oA" /\ c \in {<<"p">>, <<"P">>} -> Ok("rP")
      [] owner = "oA" /\ c \in {<<"e">>, <<"E">>} -> Ok("rE")
      [] OTHER -> Err("ErrNotFound")

\* Client.GetRepositories(owner)
GetRepositories(owner) ==
    IF owner = "oA" THEN <<"rP", "rE">> ELSE <<>>

\* Client.GetOwners()
GetOwners == <<"oA", "oHEAD", "oDot">>

\* Ref.Name()
RefName(r) ==
    CASE r = "hm" -> RefsHeads \o <<"m">>
      [] r = "hfx" -> RefsHeads \o <<"f", "/", "x">>
      [] r = "tv" -> RefsTags \o <<"v">>
      [] r = "pull" -> <<"r", "e", "f", "s", "/", "p", "u", "l", "l", "/", "1">>
      [] r = "tmpc" -> <<"c">>

\* emptyRepositoryT.GetRefs
EmptyGetRefs == <<>>

\* Repository.GetRefs()
GetRefs(repo) ==
    IF repo = "rE" THEN EmptyGetRefs ELSE <<"hm", "tv", "hfx", "pull">>

\* emptyRepositoryT.GetRef
EmptyGetRef(name) == Err("ErrNotFound")

\* Repository.GetRef(name): the ref of exactly that full name
GetRef(repo, name) ==
    IF repo = "rE" THEN EmptyGetRef(name)
    ELSE IF \E i \in 1..Len(GetRefs(repo)) : RefName(GetRefs(repo)[i]) = name
    THEN Ok(CHOOSE r \in {"hm", "hfx", "tv", "pull"} : RefName(r) = name)
    ELSE Err("ErrNotFound")

\* Repository.GetTempRef(name): a ref wrapping the raw revision c
GetTempRef(repo, name) ==
    IF repo = "rP" /\ name = <<"c">> THEN Ok("tmpc") ELSE Err("ErrNotFound")

S_IFDIR == 16384
S_IFREG == 32768
S_IFLNK == 40960
S_IFSUB == 57344
S_IFMT == 61440

Entries == {"d", "d/f", "R", "l", "k", "s", "b"}

\* TreeEntry.Name()
EntryName(e) ==
    CASE e = "d" -> <<"d">>
      [] e = "d/f" -> <<"f">>
      [] e = "R" -> <<"R">>
      [] e = "l" -> <<"l">>
      [] e = "k" -> <<"k">>
      [] e = "s" -> <<"s">>
      [] e = "b" -> <<"b">>

\* TreeEntry.Mode()
EntryMode(e) ==
    CASE e = "d" -> S_IFDIR + 493
      [] e \in {"l", "k"} -> S_IFLNK + 511
      [] e = "s" -> S_IFSUB
      [] OTHER -> S_IFREG + 420

\* TreeEntry.Target()
EntryTarget(e) ==
    CASE e = "l" -> <<"d">>
      [] e = "k" -> <<"k">>
      [] e = "s" -> <<"h">>
      [] OTHER -> <<>>

\* The directory an entry is in; Nil is the root of the tree.
EntryParent(e) == IF e = "d/f" THEN "d" ELSE Nil

\* emptyRepositoryT.GetTreeEntry
EmptyGetTreeEntry(name) == Err("ErrNotFound")

\* Repository.GetTreeEntry(ref, entry, name)
GetTreeEntry(repo, ref, entry, name) ==
    IF repo = "rE" THEN EmptyGetTreeEntry(name)
    ELSE LET found == {e \in Entries :
                          /\ EntryParent(e) = entry
                          /\ \/ EntryName(e) = name
                             \/ e = "R" /\ name = <<"r">>}
         IN  IF found = {} THEN Err("ErrNotFound")
             ELSE Ok(CHOOSE e \in found : TRUE)

\* emptyRepositoryT.GetTree
EmptyGetTree == <<>>

\* Repository.GetTree(ref, entry): the entries of a directory, an error
\* for anything else
GetTree(repo, entry) ==
    IF repo = "rE" THEN [lst |-> EmptyGetTree, err |-> "nil"]
    ELSE IF entry = Nil
    THEN [lst |-> <<"R", "b", "d", "k", "l", "s">>, err |-> "nil"]
    ELSE IF entry = "d" THEN [lst |-> <<"d/f">>, err |-> "nil"]
    ELSE [lst |-> <<>>, err |-> "ErrOther"]

\* Repository.GetModule(ref, path, true): the module path of a submodule
GetModule(repo, path) ==
    IF repo = "rP" /\ path = <<"s">> THEN <<"/", "A", "/", "q">> ELSE <<>>

(***************************************************************************)
(* The obstack and the resolver                                            *)
(***************************************************************************)

\* The nil reader.  A reader is named by the obstack it was obtained for
\* and the thread that obtained it.
NoReader == <<>>

\* &obstack{}
ObstackWithRef ==
    [owner |-> Nil, repository |-> Nil, ref |-> "hm", entry |-> Nil,
     reader |-> NoReader]

EmptyObstack ==
    [owner |-> Nil, repository |-> Nil, ref |-> Nil, entry |-> Nil,
     reader |-> NoReader]

\* A provider call of the walk may fail with an error other than
\* ErrNotFound: fault names the token (from 1) and, at that token, the call
\* (from 1) that does.  NoFault: every call answers from the content.
NoFault == [tok |-> 0, call |-> 0]
Faults ==
    {NoFault} \cup {[tok |-> i, call |-> 1] : i \in {1, 2, 3, 4, 5}}
              \cup {[tok |-> 3, call |-> k] : k \in {2, 3}}

Answer(fault, i, k, r) ==
    IF fault.tok = i /\ fault.call = k THEN Err("ErrOther") ELSE r

\* The depth-0 filter: names containing a dot, and HEAD, are not looked up.
DisallowedDotOnly(c) == ContainsChar(c, ".")

Disallowed(c) ==
    ContainsChar(c, ".") \/ c = HEAD

\* strings.ReplaceAll(c, " ", "/") of case 2
DecodeRef(c) == ReplaceAll(c, " ", "/")

\* The file name of a ref: its name without refs/heads/, else without
\* refs/tags/, else whole; each / replaced by a space.
EncodeRef(r) ==
    LET n1 == TrimPrefix(r, RefsHeads)
        n2 == IF r = n1 THEN TrimPrefix(r, RefsTags) ELSE n1
    IN  ReplaceAll(n2, "/", " ")

\* The heads, tags, temporary-ref chain of case 2: the ref or the error,
\* and the calls made.
LookupRef(repo, c, fault) ==
    LET d == DecodeRef(c)
        r1 == Answer(fault, 3, 1, GetRef(repo, RefsHeads \o d))
        r2 == Answer(fault, 3, 2, GetRef(repo, RefsTags \o d))
        r3 == Answer(fault, 3, 3, GetTempRef(repo, d))
    IN  IF r1.err /= "ErrNotFound" THEN [r |-> r1, log |-> <<"GetRef">>]
        ELSE IF r2.err /= "ErrNotFound"
        THEN [r |-> r2, log |-> <<"GetRef", "GetRef">>]
        ELSE [r |-> r3, log |-> <<"GetRef", "GetRef", "GetTempRef">>]

\* release(obs): the provider calls it makes
releaseSkipsOwner(obs) ==
    IF obs.repository /= Nil THEN <<"CloseRepository">> ELSE <<>>

release(obs) ==
    (IF obs.repository /= Nil THEN <<"CloseRepository">> ELSE <<>>)
        \o (IF obs.owner /= Nil THEN <<"CloseOwner">> ELSE <<>>)

\* One iteration of the loop of openex, at token i (from 1): the obstack
\* after the provider call, the error, the authoritative name and the
\* calls made ("OpenOwnerErr" and "OpenRepositoryErr" are the calls that
\* returned an error and opened nothing).
Level(i, c, obs, fault) ==
    IF i = 1 THEN
        IF Disallowed(c)
        THEN [obs |-> [obs EXCEPT !.owner = Nil], err |-> "ErrNotFound",
              name |-> c, log |-> <<>>]
        ELSE LET r == Answer(fault, 1, 1, OpenOwner(c))
             IN  [obs |-> [obs EXCEPT !.owner = r.obj], err |-> r.err,
                  name |-> IF r.err = "nil" THEN OwnerName(r.obj) ELSE c,
                  log |-> <<IF r.err = "nil" THEN "OpenOwner"
                            ELSE "OpenOwnerErr">>]
    ELSE IF i = 2 THEN
        LET r == Answer(fault, 2, 1, OpenRepository(obs.owner, c))
        IN  [obs |-> [obs EXCEPT !.repository = r.obj], err |-> r.err,
             name |-> IF r.err = "nil" THEN RepositoryName(r.obj) ELSE c,
             log |-> <<IF r.err = "nil" THEN "OpenRepository"
                       ELSE "OpenRepositoryErr">>]
    ELSE IF i = 3 THEN
        LET l == LookupRef(obs.repository, c, fault)
        IN  [obs |-> [obs EXCEPT !.ref = l.r.obj], err |-> l.r.err,
             name |-> IF l.r.err = "nil" THEN EncodeRef(RefName(l.r.obj)) ELSE c,
             log |-> l.log]
    ELSE
        LET r == Answer(fault, IF i > 5 THEN 5 ELSE i, 1,
                        GetTreeEntry(obs.repository, obs.ref, obs.entry, c))
        IN  [obs |-> [obs EXCEPT !.entry = r.obj], err |-> r.err,
             name |-> IF r.err = "nil" THEN EntryName(r.obj) ELSE c,
             log |-> <<"GetTreeEntry">>]

RECURSIVE Walk(_, _, _, _, _, _)

\* The end of an iteration of the loop of openex, s being what the
\* iteration at token i did: release and return on an error, else on to
\* the next token.
StepKeeps(lst, i, s, norm, fault, log) ==
    IF s.err /= "nil"
    THEN [errc |-> fuseErrc(s.err), res |-> <<s.obs>>, lst |-> lst,
          log |-> log \o s.log, err |-> s.err]
    ELSE Walk(IF norm THEN [lst EXCEPT ![i] = s.name] ELSE lst,
              i + 1, s.obs, norm, fault, log \o s.log)

Step(lst, i, s, norm, fault, log) ==
    IF s.err /= "nil"
    THEN [errc |-> fuseErrc(s.err), res |-> <<>>, lst |-> lst,
          log |-> log \o s.log \o release(s.obs), err |-> s.err]
    ELSE Walk(IF norm THEN [lst EXCEPT ![i] = s.name] ELSE lst,
              i + 1, s.obs, norm, fault, log \o s.log)

\* The loop of openex from token i on.  res is the returned pointer: <<>>
\* is nil, <<obs>> points to obs.
Walk(lst, i, obs, norm, fault, log) ==
    IF i > Len(lst)
    THEN [errc |-> 0, res |-> <<obs>>, lst |-> lst, log |-> log,
          err |-> "nil"]
    ELSE Step(lst, i, Level(i, lst[i], obs, fault), norm, fault, log)

\* openex(path, norm) under mount prefix prefix
openex(prefix, path, norm, fault) ==
    Walk(split(Join(<<prefix, path>>)), 1, EmptyObstack, norm, fault, <<>>)

\* open(path)
open(prefix, path, fault) ==
    [k \in {"errc", "res", "log", "err"} |->
        openex(prefix, path, FALSE, fault)[k]]

(***************************************************************************)
(* The attribute projection                                                *)
(***************************************************************************)

\* mode & S_IFMT
Fmt(mode) == ((mode \div 4096) % 16) * 4096

\* 0 != mode & 0400
OwnerReadBit(mode) == (mode \div 256) % 2 = 1

\* TreeEntry.Size()
EntrySize(e) == IF e \in {"d/f", "R", "b"} THEN 3 ELSE 0

\* fuseStat(stat, mode, size, time): time is "tree" (the ref's tree time)
\* or "now"
fuseStat(mode, size, time) ==
    LET m == CASE Fmt(mode) = S_IFDIR -> S_IFDIR + 493
               [] Fmt(mode) \in {S_IFLNK, S_IFSUB} -> S_IFLNK + 511
               [] OTHER -> IF OwnerReadBit(S_IFREG + 420)
                           THEN S_IFREG + 493 ELSE S_IFREG + 420
    IN  [Mode |-> m, Nlink |-> 1, Size |-> size, Time |-> time]

\* getattr(obs, entry, path, stat): the target, the stat, whether the
\* slice expression split(...)[3:] is out of range, and the calls made
getattr(prefix, obs, entry, path) ==
    IF entry /= Nil THEN
        LET mode == EntryMode(entry)
            stat == fuseStat(mode, EntrySize(entry), "tree")
        IN  CASE Fmt(mode) = S_IFLNK ->
                   [target |-> EntryTarget(entry),
                    stat |-> [stat EXCEPT !.Size = Len(EntryTarget(entry))],
                    panic |-> FALSE, log |-> <<>>]
              [] Fmt(mode) = S_IFSUB ->
                   LET toks == split(Join(<<prefix, path>>))
                       sub == JoinSep(SubSeq(toks, 4, Len(toks)), "/")
                       module == TrimPrefix(GetModule(obs.repository, sub),
                                            TrimSuffix(prefix, <<"/">>))
                       target == IF module /= <<>>
                                 THEN module \o <<"/">> \o EntryTarget(entry)
                                 ELSE EntryTarget(entry)
                   IN  IF Len(toks) < 3
                       THEN [target |-> EntryTarget(entry), stat |-> stat,
                             panic |-> TRUE, log |-> <<>>]
                       ELSE [target |-> target,
                             stat |-> [stat EXCEPT !.Size = Len(target)],
                             panic |-> FALSE, log |-> <<"GetModule">>]
              [] OTHER ->
                   [target |-> <<>>, stat |-> stat, panic |-> FALSE,
                    log |-> <<>>]
    ELSE [target |-> <<>>, stat |-> fuseStat(S_IFDIR, 0, "now"),
          panic |-> FALSE, log |-> <<>>]

\* The path Readpath returns for the token list openex left
ReadpathTarget(prefix, normpath) ==
    TrimPrefix(<<"/">> \o Join(normpath), TrimSuffix(prefix, <<"/">>))

(***************************************************************************)
(* The file system: its state                                              *)
(***************************************************************************)

VARIABLES
    prefix,     \* fs.prefix
    fh,         \* fs.fh
    openmap,    \* fs.openmap: handle -> address of its obstack
    heap,       \* the obstacks a handle or an operation points to
    readers,    \* the readers GetBlobReader returned: open, closer
    owners,     \* the provider's OpenOwner calls minus its CloseOwner calls
    repos,      \* OpenRepository calls minus CloseRepository calls
    lock,       \* fs.lock: the writer ("none" if none) and the readers
    th,         \* per thread: the operation it runs, where, and its locals
    issued,     \* history: the handles Open and Opendir returned, in order
    leaks,      \* history: readers with a Close dropped without a Close
    closed      \* history: the obstacks of handles that fs.release closed

vars ==
    <<prefix, fh, openmap, heap, readers, owners, repos, lock, th, issued,
      leaks, closed>>

mem == <<heap, readers, leaks>>
provider == <<owners, repos, closed>>

\* The most handles the file system issues in one run: of Spec, of
\* SpecOpen and of SpecSeq.
MaxFh == 1
MaxOpens == 2
MaxSeqFh == 1

Threads == {"t1", "t2"}

Root == <<"/">>
pA == <<"/", "a">>
pAP == <<"/", "a", "/", "p">>
pAPm == pAP \o <<"/", "m">>
pFile == pAPm \o <<"/", "d", "/", "f">>
pDot == <<"/", ".", "g">>
pP == <<"/", "p">>

\* The paths of the concurrent runs.
ConcPaths == {pA, pFile, pDot}

\* The paths Open and Opendir are given in the sequential runs.
SeqOpenPaths == {pA, pAP, pA \o <<"/", "e">>, pAPm, pFile, pDot}

\* The paths Getattr, Readlink and Readpath are given.
AllPaths ==
    {Root, pA, <<"/", "A">>, pAP, pAPm, pFile, pDot, pP,
     pDot \o pP, <<"/">> \o HEAD, <<"/", "z">>, pA \o <<"/", "z">>,
     pA \o <<"/", "e">>, pA \o <<"/", "e", "/", "m">>, pA \o <<"/">>,
     pAP \o <<"/", "f", " ", "x">>, pAP \o <<"/", "v">>,
     pAP \o <<"/", "c">>, pAP \o <<"/", "z">>,
     pAP \o <<"/", "v", "/", "r">>, pAPm \o <<"/", "d">>,
     pAPm \o <<"/", "z">>, pAPm \o <<"/", "l">>, pAPm \o <<"/", "s">>,
     pAPm \o <<"/", "l", "/", ".">>, pAPm \o <<"/", "k", "/", ".">>,
     pAPm \o <<"/", "R", "/", ".">>,
     pP \o <<"/", "m", "/", "s">>, pP \o <<"/", "m", "/", "d", "/", "f">>}

Prefixes == {Root, pA, <<"/", "A">>}

NoLock == [w |-> "none", r |-> {}]

Idle ==
    [op |-> "none", pc |-> "idle", path |-> <<>>, fh |-> 0, obs |-> <<>>,
     ptr |-> 0, ok |-> FALSE, reader |-> NoReader, closer |-> NoReader,
     errc |-> 0,
     target |-> <<>>, stat |-> <<>>, resolve |-> FALSE, retries |-> 0,
     opens |-> 0, fault |-> NoFault, stop |-> 0, filled |-> <<>>,
     lst |-> <<>>, log |-> <<>>, perr |-> "nil"]

Count(log, name) == Cardinality({i \in 1..Len(log) : log[i] = name})

\* The provider's counts after the calls of log.
OwnersAfter(log) == owners + Count(log, "OpenOwner") - Count(log, "CloseOwner")
ReposAfter(log) ==
    repos + Count(log, "OpenRepository") - Count(log, "CloseRepository")

Provider(log) ==
    /\ owners' = OwnersAfter(log)
    /\ repos' = ReposAfter(log)
    /\ closed' = closed

TypeOK ==
    /\ prefix \in Prefixes
    /\ fh \in Nat
    /\ DOMAIN openmap \subseteq 0..fh
    /\ \A h \in DOMAIN openmap : openmap[h] \in DOMAIN heap
    /\ owners \in Int /\ repos \in Int
    /\ lock.w \in Threads \cup {"none", "lost"} /\ lock.r \subseteq Threads
    /\ DOMAIN th = Threads

\* new(c), were the counter to start at 1
InitFromOne(pfx) ==
    /\ prefix \in pfx
    /\ fh = 1
    /\ openmap = [h \in {} |-> 0]
    /\ heap = [a \in {} |-> EmptyObstack]
    /\ readers = [i \in {} |-> [open |-> TRUE, closer |-> TRUE]]
    /\ owners = 0
    /\ repos = 0
    /\ lock = NoLock
    /\ th = [t \in Threads |-> Idle]
    /\ issued = <<>>
    /\ leaks = 0
    /\ closed = {}

InitWith(pfx) ==
    /\ prefix \in pfx
    /\ fh = 0
    /\ openmap = [h \in {} |-> 0]
    /\ heap = [a \in {} |-> EmptyObstack]
    /\ readers = [i \in {} |-> [open |-> TRUE, closer |-> TRUE]]
    /\ owners = 0
    /\ repos = 0
    /\ lock = NoLock
    /\ th = [t \in Threads |-> Idle]
    /\ issued = <<>>
    /\ leaks = 0
    /\ closed = {}

\* new(c)
Init == InitWith({Root})

(***************************************************************************)
(* Memory: obstacks and readers are heap objects.  One that no handle and  *)
(* no running operation points to is garbage and leaves the state; a       *)
(* reader with a Close that becomes garbage while open is counted in       *)
(* leaks.  An operation's locals die when it returns.                      *)
(***************************************************************************)

Restrict(f, S) == [x \in S |-> f[x]]

LiveObstacks(thr, om, hp) ==
    {a \in DOMAIN hp : \/ \E h \in DOMAIN om : om[h] = a
                       \/ \E u \in Threads : thr[u].ptr = a}

LiveReaders(thr, om, hp, rd) ==
    {i \in DOMAIN rd :
        \/ \E a \in LiveObstacks(thr, om, hp) : hp[a].reader = i
        \/ \E u \in Threads : i \in {thr[u].reader, thr[u].closer}}

\* The next state of the threads and the heap, garbage collected, in a
\* step that leaves the handle table as it is.
Commit(thr, hp, rd) ==
    /\ th' = thr
    /\ heap' = Restrict(hp, LiveObstacks(thr, openmap, hp))
    /\ readers' = Restrict(rd, LiveReaders(thr, openmap, hp, rd))
    /\ leaks' = leaks + Cardinality(
                   {i \in DOMAIN rd \ LiveReaders(thr, openmap, hp, rd) :
                       rd[i].open /\ rd[i].closer})

\* Thread t returns with the results of rec: its pointers are dropped.
Returned(t, rec) ==
    [th EXCEPT ![t] = [rec EXCEPT !.ptr = 0, !.obs = <<>>,
                                  !.reader = NoReader, !.closer = NoReader]]

(***************************************************************************)
(* fs.lock                                                                 *)
(***************************************************************************)

CanLock == lock.w = "none" /\ lock.r = {}
CanRLock == lock.w = "none"
Locked(t) == [lock EXCEPT !.w = t]
RLocked(t) == [lock EXCEPT !.r = lock.r \cup {t}]

\* fs.lock.Unlock(), fs.lock.RUnlock()
StillLocked(t) == lock

Unlocked(t) == [w |-> IF lock.w = t THEN "none" ELSE lock.w, r |-> lock.r \ {t}]

\* The write lock taken by an operation that ends without its Unlock: no
\* operation holds it and none will release it.
Orphaned == [lock EXCEPT !.w = "lost"]

Set(t, rec) == th' = [th EXCEPT ![t] = rec]

(***************************************************************************)
(* Open and Opendir                                                        *)
(***************************************************************************)

\* fs.fh++
NextFhStuck(f) == f

NextFh(f) == f + 1

\* Open(path, flags), Opendir(path): the resolution
OpenResolve(t, op, path, fault, max) ==
    /\ th[t].pc = "idle"
    /\ fh + Cardinality({u \in Threads : th[u].pc = "open_lock"}) < max
    /\ \E r \in {open(prefix, path, fault)} :
           /\ Provider(r.log)
           /\ Set(t, [Idle EXCEPT !.op = op, !.path = path, !.obs = r.res,
                                  !.errc = r.errc, !.log = r.log,
                                  !.perr = r.err,
                                  !.pc = IF r.errc /= 0 THEN "done"
                                         ELSE "open_lock"])
    /\ UNCHANGED <<prefix, fh, openmap, mem, lock, issued>>

\* fs.lock.Lock(); fh = fs.fh; fs.openmap[fh] = obs; fs.fh++
OpenInstall(t) ==
    /\ th[t].pc = "open_lock"
    /\ CanLock
    /\ lock' = Locked(t)
    /\ LET a == Len(issued) + 1
       IN  /\ openmap' = [h \in DOMAIN openmap \cup {fh} |->
                             IF h = fh THEN a ELSE openmap[h]]
           /\ heap' = [x \in DOMAIN heap \cup {a} |->
                          IF x = a THEN th[t].obs[1] ELSE heap[x]]
    /\ Set(t, [th[t] EXCEPT !.fh = fh, !.obs = <<>>, !.pc = "open_unlock"])
    /\ fh' = NextFh(fh)
    /\ issued' = Append(issued, fh)
    /\ UNCHANGED <<prefix, readers, leaks, provider>>

\* fs.lock.Unlock(); return
OpenUnlock(t) ==
    /\ th[t].pc = "open_unlock"
    /\ lock' = Unlocked(t)
    /\ Set(t, [th[t] EXCEPT !.pc = "done"])
    /\ UNCHANGED <<prefix, fh, openmap, mem, provider, issued>>

(***************************************************************************)
(* Release and Releasedir                                                  *)
(***************************************************************************)

\* delete(fs.openmap, fh)
DeleteNothing(om, h) == om

Delete(om, h) == Restrict(om, DOMAIN om \ {h})

\* fs.lock.Lock(); obs, ok := fs.openmap[fh]; if ok { delete(...) }
ReleaseRemove(t, op, h) ==
    /\ th[t].pc = "idle"
    /\ CanLock
    /\ lock' = Locked(t)
    /\ LET ok == h \in DOMAIN openmap
       IN  /\ openmap' = Delete(openmap, h)
           /\ Set(t, [Idle EXCEPT !.op = op, !.fh = h, !.ok = ok,
                                  !.ptr = IF ok THEN openmap[h] ELSE 0,
                                  !.pc = "rel_unlock"])
    /\ UNCHANGED <<prefix, fh, mem, provider, issued>>

\* fs.lock.Unlock(); if !ok { errc = -fuse.ENOENT; return }
ReleaseUnlock(t) ==
    /\ th[t].pc = "rel_unlock"
    /\ lock' = Unlocked(t)
    /\ Set(t, IF th[t].ok THEN [th[t] EXCEPT !.pc = "rel_close"]
              ELSE [th[t] EXCEPT !.errc = -ENOENT, !.pc = "done"])
    /\ UNCHANGED <<prefix, fh, openmap, mem, provider, issued>>

\* Whether a Read is inside the locked section that wrote the reader slot
\* of the obstack thread t holds.
Installing(t) ==
    \E v \in Threads \ {t} :
        /\ th[v].pc = "read_unlock"
        /\ th[v].ptr = th[t].ptr
        /\ th[v].closer = NoReader

\* What the unlocked read of obs.reader in Release can see: the slot, or,
\* while a Read is inside the locked section that wrote it, still nil.
ObservedReader(t) ==
    {heap[th[t].ptr].reader} \cup (IF Installing(t) THEN {NoReader} ELSE {})

\* The reader Release closes, having seen v in the slot: NoReader if none
ClosedByReleaseNone(v) == NoReader

ClosedByRelease(v) ==
    IF v /= NoReader /\ readers[v].closer THEN v ELSE NoReader

\* Release: if closer, ok := obs.reader.(io.Closer); ok { closer.Close() };
\* then, in Release and Releasedir, fs.release(obs)
ReleaseClose(t) ==
    /\ th[t].pc = "rel_close"
    /\ \E v \in (IF th[t].op = "Release" THEN ObservedReader(t)
                 ELSE {NoReader}) :
          LET c == ClosedByRelease(v)
              log == (IF c /= NoReader THEN <<"Close">> ELSE <<>>)
                         \o release(heap[th[t].ptr])
          IN  /\ owners' = OwnersAfter(log)
              /\ repos' = ReposAfter(log)
              /\ closed' = closed \cup {th[t].ptr}
              /\ Commit(Returned(t, [th[t] EXCEPT !.log = log, !.pc = "done"]),
                        heap,
                        IF c /= NoReader
                        THEN [readers EXCEPT ![c].open = FALSE] ELSE readers)
    /\ UNCHANGED <<prefix, fh, openmap, lock, issued>>

\* The same unlocked read, torn: the two words of the interface value are
\* read while the Read writes them, and the type assertion or the Close
\* faults.
ReleaseTorn(t) ==
    /\ th[t].pc = "rel_close"
    /\ th[t].op = "Release"
    /\ Installing(t)
    /\ Commit(Returned(t, [th[t] EXCEPT !.pc = "panic"]), heap, readers)
    /\ UNCHANGED <<prefix, fh, openmap, provider, lock, issued>>

(***************************************************************************)
(* Read                                                                    *)
(***************************************************************************)

\* emptyRepositoryT.GetBlobReader
EmptyGetBlobReader == [reader |-> "nil", err |-> "ErrNotFound"]

\* What GetBlobReader can answer: a reader with a Close method, a reader
\* without one, or nil and an error.
ReaderKinds == {"closer", "bare", "nil"}

\* Repository.GetBlobReader(entry): a reader of the kind the provider
\* chooses for a file, nil and an error for anything else.
GetBlobReader(repo, entry, kind) ==
    IF repo = "rE" THEN EmptyGetBlobReader
    ELSE IF entry \in {"d/f", "R", "b"} /\ kind /= "nil"
    THEN [reader |-> kind, err |-> "nil"]
    ELSE [reader |-> "nil", err |-> "ErrOther"]

\* fs.lock.RLock(); obs, ok := fs.openmap[fh]; if ok { reader = obs.reader }
ReadLookup(t, h) ==
    /\ th[t].pc = "idle"
    /\ CanRLock
    /\ lock' = RLocked(t)
    /\ LET ok == h \in DOMAIN openmap
       IN  Set(t, [Idle EXCEPT !.op = "Read", !.fh = h, !.ok = ok,
                               !.ptr = IF ok THEN openmap[h] ELSE 0,
                               !.reader = IF ok THEN heap[openmap[h]].reader
                                          ELSE NoReader,
                               !.pc = "read_runlock"])
    /\ UNCHANGED <<prefix, fh, openmap, mem, provider, issued>>

\* fs.lock.RUnlock(); if !ok { n = -fuse.ENOENT; return }
ReadRUnlock(t) ==
    /\ th[t].pc = "read_runlock"
    /\ lock' = Unlocked(t)
    /\ Set(t, IF ~th[t].ok
              THEN [th[t] EXCEPT !.errc = -ENOENT, !.pc = "done"]
              ELSE IF th[t].reader = NoReader
              THEN [th[t] EXCEPT !.pc = "read_get"]
              ELSE [th[t] EXCEPT !.pc = "read_at"])
    /\ UNCHANGED <<prefix, fh, openmap, mem, provider, issued>>

\* reader, _ = obs.repository.GetBlobReader(obs.entry); a nil repository
\* faults; if nil == reader { n = -fuse.EIO; return }
ReadGetBlobReader(t, kind) ==
    /\ th[t].pc = "read_get"
    /\ LET obs == heap[th[t].ptr]
           r == GetBlobReader(obs.repository, obs.entry, kind)
           i == <<th[t].ptr, t>>
       IN  IF obs.repository = Nil
           THEN Commit(Returned(t, [th[t] EXCEPT !.pc = "panic"]),
                       heap, readers)
           ELSE IF r.reader = "nil"
           THEN Commit(Returned(t, [th[t] EXCEPT
                                       !.errc = -EIO, !.pc = "done",
                                       !.perr = r.err,
                                       !.log = <<"GetBlobReader">>]),
                       heap, readers)
           ELSE Commit([th EXCEPT ![t] = [th[t] EXCEPT
                                             !.reader = i, !.pc = "read_lock",
                                             !.log = <<"GetBlobReader">>]],
                       heap,
                       [x \in DOMAIN readers \cup {i} |->
                           IF x = i THEN [open |-> TRUE,
                                          closer |-> r.reader = "closer"]
                           ELSE readers[x]])
    /\ UNCHANGED <<prefix, fh, openmap, provider, lock, issued>>

\* The slot after the locked section of Read, for a Read that brings new.
InstallAlways(slot, new) == new

Install(slot, new) == IF slot = NoReader THEN new ELSE slot

\* fs.lock.Lock(); if nil == obs.reader { obs.reader = reader } else
\* { closer = reader.(io.Closer); reader = obs.reader }: the assertion
\* faults on a reader without a Close, with the lock held.
ReadInstall(t) ==
    /\ th[t].pc = "read_lock"
    /\ CanLock
    /\ LET a == th[t].ptr
           slot == Install(heap[a].reader, th[t].reader)
       IN  /\ lock' = IF slot = th[t].reader \/ readers[th[t].reader].closer
                      THEN Locked(t) ELSE Orphaned
           /\ IF slot = th[t].reader
              THEN Commit([th EXCEPT ![t] = [th[t] EXCEPT !.pc = "read_unlock"]],
                          [heap EXCEPT ![a].reader = slot], readers)
              ELSE IF readers[th[t].reader].closer
              THEN Commit([th EXCEPT ![t] = [th[t] EXCEPT
                                                !.closer = th[t].reader,
                                                !.reader = slot,
                                                !.pc = "read_unlock"]],
                          heap, readers)
              ELSE Commit(Returned(t, [th[t] EXCEPT !.pc = "panic"]),
                          heap, readers)
    /\ UNCHANGED <<prefix, fh, openmap, provider, issued>>

\* fs.lock.Unlock()
ReadUnlock(t) ==
    /\ th[t].pc = "read_unlock"
    /\ lock' = Unlocked(t)
    /\ Set(t, [th[t] EXCEPT !.pc = "read_at"])
    /\ UNCHANGED <<prefix, fh, openmap, mem, provider, issued>>

ReadOutcomes == {"ok", "eof", "ErrOther", "ErrNotFound"}

\* if nil != closer { closer.Close() }; n, err := reader.ReadAt(buff, ofst);
\* if nil != err && io.EOF != err { n = fuseErrc(err) }
ReadAt(t, outcome) ==
    /\ th[t].pc = "read_at"
    /\ Commit(Returned(t, [th[t] EXCEPT
                  !.log = th[t].log
                              \o (IF th[t].closer /= NoReader THEN <<"Close">>
                                  ELSE <<>>) \o <<"ReadAt">>,
                  !.errc = CASE outcome = "ok" -> 3
                             [] outcome = "eof" -> 0
                             [] OTHER -> fuseErrc(outcome),
                  !.perr = IF outcome \in {"ok", "eof"} THEN "nil"
                           ELSE outcome,
                  !.pc = "done"]),
              heap,
              IF th[t].closer /= NoReader
              THEN [readers EXCEPT ![th[t].closer].open = FALSE]
              ELSE readers)
    /\ UNCHANGED <<prefix, fh, openmap, provider, lock, issued>>

(***************************************************************************)
(* Readdir                                                                 *)
(***************************************************************************)

\* fill(name, stat, 0): the buffer is full from call number stop on (never
\* if stop is 0), and fill then returns false.
FillStops == {0, 1, 3, 4}
FillOk(stop, k) == stop = 0 \/ k < stop

\* The name Readdir lists a ref under: <<>> (none) unless it is a head.
RefFileAny(r) == <<EncodeRef(r)>>

RefFile(r) ==
    LET n == TrimPrefix(r, RefsHeads)
    IN  IF r = n THEN <<>> ELSE <<ReplaceAll(n, "/", " ")>>

RECURSIVE RefFiles(_)
RefFiles(refs) ==
    IF Len(refs) = 0 THEN <<>>
    ELSE LET f == RefFile(RefName(Head(refs)))
         IN  (IF f = <<>> THEN <<>>
              ELSE <<[name |-> f[1], panic |-> FALSE]>>)
                 \o RefFiles(Tail(refs))

\* The children Readdir goes through, by the deepest slot of the obstack:
\* each with its name and whether getattr faults on it, and the error of
\* the listing call.  fails: the call returns an error the content does
\* not call for.
Children(obs, path, fails) ==
    IF obs.ref /= Nil THEN
        LET l == GetTree(obs.repository, obs.entry)
        IN  [log |-> <<"GetTree">>,
             err |-> IF fails THEN "ErrOther" ELSE l.err,
             items |-> IF fails \/ l.err /= "nil" THEN <<>>
                       ELSE [i \in 1..Len(l.lst) |->
                                [name |-> EntryName(l.lst[i]),
                                 panic |-> getattr(prefix, obs, l.lst[i],
                                               Join(<<path, EntryName(l.lst[i])>>)).panic]]]
    ELSE IF obs.repository /= Nil THEN
        [log |-> <<"GetRefs">>, err |-> IF fails THEN "ErrOther" ELSE "nil",
         items |-> IF fails THEN <<>> ELSE RefFiles(GetRefs(obs.repository))]
    ELSE IF obs.owner /= Nil THEN
        [log |-> <<"GetRepositories">>,
         err |-> IF fails THEN "ErrOther" ELSE "nil",
         items |-> IF fails THEN <<>>
                   ELSE [i \in 1..Len(GetRepositories(obs.owner)) |->
                            [name |-> RepositoryName(GetRepositories(obs.owner)[i]),
                             panic |-> FALSE]]]
    ELSE
        [log |-> <<"GetOwners">>, err |-> IF fails THEN "ErrOther" ELSE "nil",
         items |-> IF fails THEN <<>>
                   ELSE [i \in 1..Len(GetOwners) |->
                            [name |-> OwnerName(GetOwners[i]), panic |-> FALSE]]]

\* The loop over the children from item j on: fill is call number j + 2.
RECURSIVE FillFrom(_, _, _, _)
FillFrom(items, j, stop, filled) ==
    IF j > Len(items) THEN [filled |-> filled, panic |-> FALSE]
    ELSE IF items[j].panic THEN [filled |-> filled, panic |-> TRUE]
    ELSE IF ~FillOk(stop, j + 2)
    THEN [filled |-> Append(filled, items[j].name), panic |-> FALSE]
    ELSE FillFrom(items, j + 1, stop, Append(filled, items[j].name))

\* fs.lock.RLock(); obs, ok := fs.openmap[fh]
ReaddirLookup(t, path, h) ==
    /\ th[t].pc = "idle"
    /\ CanRLock
    /\ lock' = RLocked(t)
    /\ LET ok == h \in DOMAIN openmap
       IN  Set(t, [Idle EXCEPT !.op = "Readdir", !.path = path, !.fh = h,
                               !.ok = ok,
                               !.ptr = IF ok THEN openmap[h] ELSE 0,
                               !.pc = "readdir_runlock"])
    /\ UNCHANGED <<prefix, fh, openmap, mem, provider, issued>>

\* fs.lock.RUnlock(); if !ok { errc = -fuse.ENOENT; return }
ReaddirRUnlock(t) ==
    /\ th[t].pc = "readdir_runlock"
    /\ lock' = Unlocked(t)
    /\ Set(t, IF th[t].ok THEN [th[t] EXCEPT !.pc = "readdir_fill"]
              ELSE [th[t] EXCEPT !.errc = -ENOENT, !.pc = "done"])
    /\ UNCHANGED <<prefix, fh, openmap, mem, provider, issued>>

\* fill("."), fill(".."), then the children
ReaddirFill(t, stop, fails) ==
    /\ th[t].pc = "readdir_fill"
    /\ LET c == Children(heap[th[t].ptr], th[t].path, fails)
           f == FillFrom(c.items, 1, stop, <<<<".">>, DotDot>>)
       IN  Commit(Returned(t, [th[t] EXCEPT
                                  !.filled = f.filled, !.log = c.log,
                                  !.stop = stop, !.perr = c.err,
                                  !.pc = IF f.panic THEN "panic" ELSE "done"]),
                  heap, readers)
    /\ UNCHANGED <<prefix, fh, openmap, provider, lock, issued>>

(***************************************************************************)
(* Getattr, Readlink, Readpath                                             *)
(***************************************************************************)

MaxRetriesAndOne == 16 + 1

MaxRetries == 16

\* retry: errc, obs := fs.open(path); if 0 != errc { return }
\* The provider call that fails, if one does, fails in every round.
GetattrOpen(t, path, fault) ==
    /\ th[t].pc \in {"idle", "getattr_retry"}
    /\ th[t].pc = "getattr_retry" => path = th[t].path /\ fault = th[t].fault
    /\ \E me \in {IF th[t].pc = "idle"
                  THEN [Idle EXCEPT !.op = "Getattr", !.path = path,
                                    !.fault = fault,
                                    !.resolve = HasSuffix(path, <<"/", ".">>)]
                  ELSE th[t]},
          r \in {open(prefix, path, fault)} :
           /\ Provider(r.log)
           /\ Set(t, [me EXCEPT !.obs = r.res, !.errc = r.errc,
                                !.opens = me.opens + 1, !.perr = r.err,
                                !.log = me.log \o r.log,
                                !.pc = IF r.errc /= 0 THEN "done"
                                       ELSE "getattr_attr"])
    /\ UNCHANGED <<prefix, fh, openmap, mem, lock, issued>>

\* target := fs.getattr(obs, obs.entry, path, stat); fs.release(obs);
\* if resolve && "" != target && 16 > retries { path = ...; retries++;
\* goto retry }
GetattrAttr(t) ==
    /\ th[t].pc = "getattr_attr"
    /\ \E g \in {getattr(prefix, th[t].obs[1], th[t].obs[1].entry,
                            th[t].path)} :
       \E again \in {th[t].resolve /\ g.target /= <<>>
                        /\ MaxRetries > th[t].retries} :
           /\ Provider(g.log \o release(th[t].obs[1]))
           /\ Set(t, [th[t] EXCEPT
                         !.obs = <<>>, !.stat = <<g.stat>>,
                         !.target = g.target,
                         !.log = th[t].log \o g.log
                                     \o release(th[t].obs[1]),
                         !.path = IF ~again THEN th[t].path
                                  ELSE IF g.target[1] = "/" THEN g.target
                                  ELSE Join(<<th[t].path, DotDot, g.target>>),
                         !.retries = IF again THEN th[t].retries + 1
                                     ELSE th[t].retries,
                         !.pc = IF again THEN "getattr_retry" ELSE "done"])
    /\ UNCHANGED <<prefix, fh, openmap, mem, lock, issued>>

\* errc, obs := fs.open(path); if 0 != errc { return }
ReadlinkOpen(t, path, fault) ==
    /\ th[t].pc = "idle"
    /\ \E r \in {open(prefix, path, fault)} :
           /\ Provider(r.log)
           /\ Set(t, [Idle EXCEPT !.op = "Readlink", !.path = path,
                                  !.obs = r.res, !.errc = r.errc,
                                  !.log = r.log, !.perr = r.err,
                                  !.pc = IF r.errc /= 0 THEN "done"
                                         ELSE "readlink_attr"])
    /\ UNCHANGED <<prefix, fh, openmap, mem, lock, issued>>

\* The errno of Readlink for a target
ReadlinkErrcNever(target) == 0

ReadlinkErrc(target) == IF target = <<>> THEN -EINVAL ELSE 0

\* target = fs.getattr(obs, obs.entry, path, &stat); if "" == target
\* { errc = -fuse.EINVAL }; fs.release(obs)
ReadlinkAttr(t) ==
    /\ th[t].pc = "readlink_attr"
    /\ \E g \in {getattr(prefix, th[t].obs[1], th[t].obs[1].entry,
                            th[t].path)} :
           /\ Provider(g.log \o release(th[t].obs[1]))
           /\ Set(t, [th[t] EXCEPT !.obs = <<>>, !.target = g.target,
                                   !.stat = <<g.stat>>,
                                   !.errc = ReadlinkErrc(g.target),
                                   !.log = th[t].log \o g.log
                                               \o release(th[t].obs[1]),
                                   !.pc = "done"])
    /\ UNCHANGED <<prefix, fh, openmap, mem, lock, issued>>

\* errc, obs, normpath := fs.openex(path, true)
ReadpathOpen(t, path, fault) ==
    /\ th[t].pc = "idle"
    /\ \E r \in {openex(prefix, path, TRUE, fault)} :
           /\ Provider(r.log)
           /\ Set(t, [Idle EXCEPT !.op = "Readpath", !.path = path,
                                  !.fault = fault,
                                  !.obs = r.res, !.errc = r.errc,
                                  !.lst = r.lst, !.log = r.log,
                                  !.perr = r.err,
                                  !.pc = "readpath_target"])
    /\ UNCHANGED <<prefix, fh, openmap, mem, lock, issued>>

\* errc = 0
ReadpathErrcKept(errc) == errc

ReadpathErrc(errc) == 0

\* if 0 == errc { fs.release(obs) }; errc = 0; target = "/" +
\* pathutil.Join(normpath...); target = strings.TrimPrefix(target, ...)
ReadpathTargetStep(t) ==
    /\ th[t].pc = "readpath_target"
    /\ LET log == IF th[t].errc = 0 THEN release(th[t].obs[1]) ELSE <<>>
       IN  /\ Provider(log)
           /\ Set(t, [th[t] EXCEPT !.obs = <<>>, !.ok = th[t].errc = 0,
                                   !.errc = ReadpathErrc(th[t].errc),
                                   !.target = ReadpathTarget(prefix, th[t].lst),
                                   !.log = th[t].log \o log,
                                   !.pc = "done"])
    /\ UNCHANGED <<prefix, fh, openmap, mem, lock, issued>>

(***************************************************************************)
(* Return to the caller                                                    *)
(***************************************************************************)

\* The caller takes the results (or the fault); the thread is free again.
Return(t) ==
    /\ th[t].pc \in {"done", "panic"}
    /\ Set(t, Idle)
    /\ UNCHANGED <<prefix, fh, openmap, mem, provider, lock, issued>>

(***************************************************************************)
(* Specifications                                                          *)
(***************************************************************************)

\* The handles the operations are given: those issued, and one never
\* issued.
Handles(max) == 0..max

\* The handle operations, run by two threads under mount prefix "/".
Next ==
    \E t \in Threads :
        \/ \E p \in ConcPaths :
              OpenResolve(t, IF p = pA THEN "Opendir" ELSE "Open", p, NoFault,
                          MaxFh)
        \/ OpenInstall(t)
        \/ OpenUnlock(t)
        \/ \E op \in {"Release", "Releasedir"}, h \in Handles(MaxFh) :
              ReleaseRemove(t, op, h)
        \/ ReleaseUnlock(t)
        \/ ReleaseClose(t)
        \/ ReleaseTorn(t)
        \/ \E h \in Handles(MaxFh) : ReadLookup(t, h)
        \/ ReadRUnlock(t)
        \/ \E k \in ReaderKinds : ReadGetBlobReader(t, k)
        \/ ReadInstall(t)
        \/ ReadUnlock(t)
        \/ \E o \in {"ok", "ErrOther"} : ReadAt(t, o)
        \/ \E h \in Handles(MaxFh) : ReaddirLookup(t, pA, h)
        \/ ReaddirRUnlock(t)
        \/ ReaddirFill(t, 0, FALSE)
        \/ Return(t)

Spec == Init /\ [][Next]_vars

\* Open, Opendir, Release and Releasedir alone, run by two threads, with
\* more handles.
NextOpen ==
    \E t \in Threads :
        \/ \E op \in {"Open", "Opendir"}, p \in ConcPaths :
              OpenResolve(t, op, p, NoFault, MaxOpens)
        \/ OpenInstall(t)
        \/ OpenUnlock(t)
        \/ \E op \in {"Release", "Releasedir"}, h \in Handles(MaxOpens) :
              ReleaseRemove(t, op, h)
        \/ ReleaseUnlock(t)
        \/ ReleaseClose(t)
        \/ Return(t)

SpecOpen == Init /\ [][NextOpen]_vars

\* Every operation but the one that needs a second thread, run one at a
\* time under each mount prefix, with every path and every provider failure.
InitSeq == InitWith(Prefixes)

NextSeq ==
    \E t \in {"t1"} :
        \/ \E op \in {"Open", "Opendir"}, p \in SeqOpenPaths :
              OpenResolve(t, op, p, NoFault, MaxSeqFh)
        \/ OpenInstall(t)
        \/ OpenUnlock(t)
        \/ \E op \in {"Release", "Releasedir"}, h \in Handles(MaxSeqFh) :
              ReleaseRemove(t, op, h)
        \/ ReleaseUnlock(t)
        \/ ReleaseClose(t)
        \/ \E h \in Handles(MaxSeqFh) : ReadLookup(t, h)
        \/ ReadRUnlock(t)
        \/ \E k \in ReaderKinds : ReadGetBlobReader(t, k)
        \/ ReadInstall(t)
        \/ ReadUnlock(t)
        \/ \E o \in ReadOutcomes : ReadAt(t, o)
        \/ \E h \in Handles(MaxSeqFh), p \in {Root, pAPm} : ReaddirLookup(t, p, h)
        \/ ReaddirRUnlock(t)
        \/ \E stop \in FillStops, fails \in BOOLEAN : ReaddirFill(t, stop, fails)
        \/ \E p \in AllPaths \cup {th[t].path}, f \in Faults : GetattrOpen(t, p, f)
        \/ GetattrAttr(t)
        \/ \E p \in AllPaths, f \in Faults : ReadlinkOpen(t, p, f)
        \/ ReadlinkAttr(t)
        \/ \E p \in AllPaths, f \in Faults : ReadpathOpen(t, p, f)
        \/ ReadpathTargetStep(t)
        \/ Return(t)

SpecSeq == InitSeq /\ [][NextSeq]_vars

\* Getattr alone, under each mount prefix, with every path and every
\* provider failure.  A Getattr that has started goes on to its next
\* statement: the goroutine that runs it is scheduled again.
Running(t) ==
    \/ th[t].pc = "getattr_retry" /\ GetattrOpen(t, th[t].path, th[t].fault)
    \/ GetattrAttr(t)

\* The positions Running is enabled at.
Runnable(t) == th[t].pc \in {"getattr_attr", "getattr_retry"}

\* WF_vars(Running(t)), with ENABLED <<Running(t)>>_vars written as
\* Runnable(t).
Fair(t) == []<>(~Runnable(t)) \/ []<><<Running(t)>>_vars

NextGetattr ==
    \E t \in {"t1"} :
        \/ \E p \in AllPaths \cup {th[t].path}, f \in Faults : GetattrOpen(t, p, f)
        \/ GetattrAttr(t)
        \/ Return(t)

SpecGetattr == InitSeq /\ [][NextGetattr]_vars /\ Fair("t1")

(***************************************************************************)
(* Properties                                                              *)
(***************************************************************************)

\* The handles in the table whose obstack has the slot (owner, repository,
\* ref or entry) populated.
Held(slot) ==
    Cardinality({h \in DOMAIN openmap : heap[openmap[h]][slot] /= Nil})

\* C1: in a sequence of operations, whenever no operation is under way the
\* provider's counts of open owners and open repositories are exactly those
\* of the handles in the table; so the Release or Releasedir of an opened
\* handle puts both counts back to what they were before its Open or
\* Opendir.
C1_CountsRestored ==
    (\A t \in Threads : th[t].pc \in {"idle", "done"}) =>
        /\ owners = Held("owner")
        /\ repos = Held("repository")

\* A Release or Releasedir has closed the repository and the owner of the
\* only handle, and the counts are back to those of the construction.
C1_Released ==
    /\ th["t1"].pc = "done"
    /\ th["t1"].op \in {"Release", "Releasedir"}
    /\ th["t1"].ok
    /\ Count(th["t1"].log, "CloseRepository") = 1
    /\ Count(th["t1"].log, "CloseOwner") = 1
    /\ DOMAIN openmap = {}
    /\ owners = 0 /\ repos = 0

\* C2: the reader slot of an obstack, once assigned, keeps its reader for as
\* long as the obstack exists; a Read that brings a reader to the locked
\* section leaves the slot assigned, and if the slot was assigned already it
\* keeps its own reader aside and closes it (a reader with a Close method)
\* before it reads from the installed one.
C2_AssignedOnce ==
    [][/\ \A a \in DOMAIN heap \cap DOMAIN heap' :
              heap[a].reader /= NoReader => heap'[a].reader = heap[a].reader
       /\ \A t \in Threads :
              th[t].pc = "read_lock" /\ th'[t].pc = "read_unlock" =>
                  /\ heap'[th[t].ptr].reader /= NoReader
                  /\ heap[th[t].ptr].reader /= NoReader =>
                         /\ th'[t].closer = th[t].reader
                         /\ th'[t].reader = heap[th[t].ptr].reader
       /\ \A t \in Threads :
              th[t].pc = "read_at" /\ th[t].closer /= NoReader
                                   /\ th'[t].pc = "done" =>
                  Count(th'[t].log, "Close") = 1]_vars

\* Two Reads on one live handle each obtained a reader; one is installed and
\* the Read that lost holds its own to close.
C2_LostRace ==
    \E t \in Threads :
        /\ th[t].pc = "read_at"
        /\ th[t].closer /= NoReader
        /\ th[t].fh \in DOMAIN openmap
        /\ heap[th[t].ptr].reader \notin {NoReader, th[t].closer}
        /\ Count(th[t].log, "GetBlobReader") = 1

\* C3: in every interleaving of Open, Opendir, Release and Releasedir, each
\* handle returned is greater than all returned before it; so the handles in
\* the table are handles that were returned, no two of them are bound to
\* one obstack, and a handle that left the table is never returned again.
C3_HandlesIncrease ==
    /\ \A i, j \in 1..Len(issued) : i < j => issued[i] < issued[j]
    /\ \A h \in DOMAIN openmap : \E i \in 1..Len(issued) : issued[i] = h
    /\ \A g, h \in DOMAIN openmap : g /= h => openmap[g] /= openmap[h]
    /\ \A i \in 1..Len(issued) : issued[i] < fh

\* A handle was returned and released, and a second handle, opened by
\* another call, is in the table.
C3_SecondHandle ==
    /\ Len(issued) = 2
    /\ issued[1] \notin DOMAIN openmap
    /\ issued[2] \in DOMAIN openmap
    /\ \E t \in Threads : /\ th[t].pc = "done"
                           /\ th[t].op \in {"Release", "Releasedir"}
                           /\ th[t].ok /\ th[t].fh = issued[1]

\* The operations that are given a handle.
HandleOps == {"Read", "Readdir", "Release", "Releasedir"}

\* C5: a Read, Readdir, Release or Releasedir given a handle that is not in
\* the table changes neither the table nor the counter, calls the provider
\* for nothing and returns -ENOENT; and no two Release or Releasedir calls
\* ever both find the same handle in the table.
C5_UnknownHandle ==
    /\ [][\A t \in Threads :
             /\ th'[t] /= th[t]
             /\ th'[t].op \in HandleOps
             /\ ~th'[t].ok
             => /\ openmap' = openmap /\ fh' = fh
                /\ owners' = owners /\ repos' = repos
                /\ th'[t].log = <<>>
                /\ th'[t].pc = "done" => th'[t].errc = -ENOENT]_vars
    /\ [](\A t, u \in Threads :
             /\ t /= u
             /\ th[t].op \in {"Release", "Releasedir"}
             /\ th[u].op \in {"Release", "Releasedir"}
             /\ th[t].fh = th[u].fh
             => ~(th[t].ok /\ th[u].ok))

\* Two calls released the same handle: one closed its repository and its
\* owner, the other returned -ENOENT.
C5_DoubleRelease ==
    \E t, u \in Threads :
        /\ th[t].pc = "done" /\ th[u].pc = "done"
        /\ th[t].op \in {"Release", "Releasedir"}
        /\ th[u].op \in {"Release", "Releasedir"}
        /\ th[t].fh = th[u].fh
        /\ th[t].ok /\ Count(th[t].log, "CloseOwner") = 1
        /\ ~th[u].ok /\ th[u].errc = -ENOENT /\ th[u].log = <<>>

\* The tokens of the path thread t resolves.
Tokens(t) == split(Join(<<prefix, th[t].path>>))

\* Thread t is just past a resolution that failed, or one that succeeded.
Failed(t) ==
    \/ /\ th[t].pc = "done"
       /\ th[t].op \in {"Getattr", "Readlink", "Open", "Opendir"}
       /\ th[t].errc \notin {0, -EINVAL}
    \/ th[t].pc = "readpath_target" /\ th[t].errc /= 0

Succeeded(t) ==
    /\ th[t].pc \in {"readpath_target", "getattr_attr", "readlink_attr",
                      "open_lock"}
    /\ th[t].errc = 0

\* C4: a resolution either fails with -ENOENT or -EIO, returns no obstack
\* and has closed each owner and repository it opened, or succeeds with an
\* obstack that has an owner iff the path has at least 1 token, a
\* repository iff at least 2, a ref iff at least 3 and an entry iff at
\* least 4, having opened just those and closed nothing.
C4_AllOrNothing ==
    \A t \in Threads :
        /\ Failed(t) =>
               /\ th[t].errc \in {-ENOENT, -EIO}
               /\ th[t].obs = <<>>
               /\ Count(th[t].log, "OpenOwner") = Count(th[t].log, "CloseOwner")
               /\ Count(th[t].log, "OpenRepository")
                      = Count(th[t].log, "CloseRepository")
        /\ Succeeded(t) =>
               /\ Len(th[t].obs) = 1
               /\ th[t].obs[1].owner /= Nil <=> Len(Tokens(t)) >= 1
               /\ th[t].obs[1].repository /= Nil <=> Len(Tokens(t)) >= 2
               /\ th[t].obs[1].ref /= Nil <=> Len(Tokens(t)) >= 3
               /\ th[t].obs[1].entry /= Nil <=> Len(Tokens(t)) >= 4
               /\ Count(th[t].log, "OpenOwner")
                      = Count(th[t].log, "CloseOwner")
                            + (IF Len(Tokens(t)) >= 1 THEN 1 ELSE 0)
               /\ Count(th[t].log, "OpenRepository")
                      = Count(th[t].log, "CloseRepository")
                            + (IF Len(Tokens(t)) >= 2 THEN 1 ELSE 0)

\* A resolution failed at the tree entry, after it opened an owner and a
\* repository, and closed both.
C4_FailedDeep ==
    /\ Failed("t1")
    /\ Len(Tokens("t1")) >= 4
    /\ Count(th["t1"].log, "GetTreeEntry") >= 1
    /\ Count(th["t1"].log, "CloseOwner") = 1
    /\ Count(th["t1"].log, "CloseRepository") = 1

\* The first token of the path of thread t has a dot in it, or is HEAD.
Filtered(t) ==
    /\ Len(Tokens(t)) >= 1
    /\ \/ \E i \in 1..Len(Tokens(t)[1]) : Tokens(t)[1][i] = "."
       \/ Tokens(t)[1] = <<"H", "E", "A", "D">>

\* C6: the resolution of a path whose first token, after the mount prefix
\* is joined, has a dot in it or is HEAD fails with -ENOENT and calls the
\* provider for nothing, in Getattr, Readlink, Open, Opendir and Readpath.
C6_FilteredNames ==
    \A t \in Threads :
        /\ th[t].op \in {"Getattr", "Readlink", "Open", "Opendir", "Readpath"}
        /\ th[t].retries = 0
        /\ Filtered(t)
        => /\ th[t].pc \in {"done", "readpath_target"}
           /\ th[t].log = <<>>
           /\ th[t].obs = <<>>
           /\ IF th[t].op = "Readpath" /\ th[t].pc = "done" THEN ~th[t].ok
              ELSE th[t].errc = -ENOENT

\* Getattr of /HEAD, an owner the provider has, failed with -ENOENT and no
\* provider call.
C6_Head ==
    /\ th["t1"].op = "Getattr"
    /\ th["t1"].pc = "done"
    /\ Tokens("t1") = <<HEAD>>
    /\ OpenOwner(HEAD).err = "nil"
    /\ th["t1"].errc = -ENOENT
    /\ th["t1"].log = <<>>

\* The path made of the first k of the tokens toks.
Upto(toks, k) == <<"/">> \o JoinSep(SubSeq(toks, 1, k), "/")

\* The name the provider has for what token k of a path names, obs being
\* what the first k tokens resolve to.
Canonical(k, obs) ==
    CASE k = 1 -> OwnerName(obs.owner)
      [] k = 2 -> RepositoryName(obs.repository)
      [] k = 3 -> EncodeRef(RefName(obs.ref))
      [] OTHER -> EntryName(obs.entry)

\* The tokens of a path with the provider's name in place of each token up
\* to which the path resolves, the provider failing as fault says.
Normalized(toks, fault) ==
    [k \in 1..Len(toks) |->
        IF openex(Root, Upto(toks, k), FALSE, fault).errc = 0
        THEN Canonical(k, openex(Root, Upto(toks, k), FALSE, fault).res[1])
        ELSE toks[k]]

\* C7: Readpath returns errc 0 whether the resolution succeeded or not; the
\* path it returns is made of the provider's names for the tokens the
\* resolution got through and of the tokens from the failing one on as they
\* were given (less the mount prefix, when the path begins with it); and
\* each owner and repository the call opened is closed.
C7_ReadpathPartial ==
    \A t \in Threads :
        th[t].op = "Readpath" /\ th[t].pc = "done" =>
            /\ th[t].errc = 0
            /\ th[t].target =
                   TrimPrefix(Upto(Normalized(Tokens(t), th[t].fault),
                                   Len(Tokens(t))),
                              TrimSuffix(prefix, <<"/">>))
            /\ th[t].obs = <<>>
            /\ Count(th[t].log, "OpenOwner") = Count(th[t].log, "CloseOwner")
            /\ Count(th[t].log, "OpenRepository")
                   = Count(th[t].log, "CloseRepository")

\* Readpath of /a/p/z, which fails at its third token, returned errc 0 and
\* /A/P/z.
C7_FailedAtRef ==
    /\ th["t1"].op = "Readpath" /\ th["t1"].pc = "done"
    /\ prefix = Root
    /\ th["t1"].path = pAP \o <<"/", "z">>
    /\ ~th["t1"].ok
    /\ th["t1"].errc = 0
    /\ th["t1"].target = <<"/", "A", "/", "P", "/", "z">>
    /\ Count(th["t1"].log, "CloseRepository") = 1

\* The names Readdir may list for the refs of a repository: for each ref
\* GetRefs returns whose name begins with refs/heads/, the rest of the name
\* with a space for each slash.
HeadNames(repo) ==
    {ReplaceAll(SubSeq(RefName(GetRefs(repo)[i]), Len(RefsHeads) + 1,
                       Len(RefName(GetRefs(repo)[i]))), "/", " ") :
        i \in {j \in 1..Len(GetRefs(repo)) :
                  HasPrefix(RefName(GetRefs(repo)[j]), RefsHeads)}}

\* C8: a Readdir on a handle whose obstack has a repository and no ref
\* gives fill ".", ".." and then only names of refs under refs/heads/; no
\* tag or other ref is listed.
C8_HeadsOnly ==
    \A t \in Threads :
        /\ th[t].op = "Readdir" /\ th[t].pc = "done" /\ th[t].ok
        /\ th[t].fh \in DOMAIN openmap
        /\ heap[openmap[th[t].fh]].repository /= Nil
        /\ heap[openmap[th[t].fh]].ref = Nil
        => /\ Len(th[t].filled) >= 2
           /\ th[t].filled[1] = <<".">> /\ th[t].filled[2] = DotDot
           /\ \A k \in 3..Len(th[t].filled) :
                  th[t].filled[k]
                      \in HeadNames(heap[openmap[th[t].fh]].repository)

\* Readdir of the repository A/P, which has two heads, a tag and a pull
\* ref, listed the two heads.
C8_ListedHeads ==
    /\ th["t1"].op = "Readdir" /\ th["t1"].pc = "done" /\ th["t1"].ok
    /\ th["t1"].fh \in DOMAIN openmap
    /\ heap[openmap[th["t1"].fh]].repository = "rP"
    /\ heap[openmap[th["t1"].fh]].ref = Nil
    /\ \E i \in 1..Len(GetRefs("rP")) :
           HasPrefix(RefName(GetRefs("rP")[i]), RefsTags)
    /\ th["t1"].filled = <<<<".">>, DotDot, <<"m">>, <<"f", " ", "x">>>>

\* C9: the second step of a Readlink, taken after its resolution succeeded,
\* returns -EINVAL exactly when the projection gives an empty target, which
\* is when the path has no entry or an entry that is neither a symlink nor
\* a submodule, and otherwise 0 with the target; either way it closes the
\* repository and the owner the resolution opened, once each, and leaves
\* the handle table and the counter as they were.
C9_ReadlinkStep ==
    [][\A t \in Threads :
          th[t].pc = "readlink_attr" /\ th'[t].pc = "done" =>
              /\ th'[t].errc = -EINVAL <=> th'[t].target = <<>>
              /\ th'[t].errc \in {0, -EINVAL}
              /\ th'[t].target = <<>> <=>
                     \/ th[t].obs[1].entry = Nil
                     \/ Fmt(EntryMode(th[t].obs[1].entry))
                            \notin {S_IFLNK, S_IFSUB}
              /\ Count(th'[t].log, "OpenOwner")
                     = Count(th'[t].log, "CloseOwner")
              /\ Count(th'[t].log, "CloseOwner")
                     = (IF th[t].obs[1].owner /= Nil THEN 1 ELSE 0)
              /\ Count(th'[t].log, "OpenRepository")
                     = Count(th'[t].log, "CloseRepository")
              /\ Count(th'[t].log, "CloseRepository")
                     = (IF th[t].obs[1].repository /= Nil THEN 1 ELSE 0)
              /\ owners' = owners - Count(th'[t].log, "CloseOwner")
              /\ repos' = repos - Count(th'[t].log, "CloseRepository")
              /\ openmap' = openmap /\ fh' = fh /\ heap' = heap]_vars

\* A Readlink of a symlink returned its target, and a handle is in the
\* table.
C9_ReadSymlink ==
    /\ th["t1"].op = "Readlink" /\ th["t1"].pc = "done"
    /\ th["t1"].errc = 0
    /\ th["t1"].target = <<"d">>
    /\ Count(th["t1"].log, "CloseOwner") = 1
    /\ DOMAIN openmap /= {}

\* What Readpath returns for a path, the provider failing as fault says.
Readpath(path, fault) ==
    ReadpathTarget(prefix, openex(prefix, path, TRUE, fault).lst)

\* C10: when a Readpath has resolved its path, a Readpath of the path it
\* returned returns that same path.
C10_Idempotent ==
    \A t \in Threads :
        th[t].op = "Readpath" /\ th[t].pc = "done" /\ th[t].ok =>
            Readpath(th[t].target, th[t].fault) = th[t].target

\* The same, under the mount prefixes that are spelled as the provider
\* spells them.
C10_CanonicalPrefix ==
    prefix /= pA => C10_Idempotent

\* C11: in every interleaving of Read or Readdir with Release or Releasedir
\* on one handle, no step calls GetBlobReader, GetTree, GetRefs or
\* GetRepositories on a repository or an owner of an obstack that fs.release
\* has closed, and none calls ReadAt on a reader that has been closed.
C11_NoCallAfterClose ==
    [][\A t \in Threads :
          /\ th[t].pc = "read_get" /\ th'[t].log = <<"GetBlobReader">>
                => th[t].ptr \notin closed
          /\ th[t].pc = "readdir_fill" /\ th'[t].pc /= "readdir_fill"
                /\ heap[th[t].ptr].owner /= Nil
                => th[t].ptr \notin closed
          /\ th[t].pc = "read_at" /\ th'[t].pc = "done"
                => readers[th[t].reader].open]_vars

\* C12: in every interleaving of Read and Release, a reader with a Close
\* that GetBlobReader returned does not go out of reach open: when the last
\* pointer to it is dropped, the step that drops it is the Read that lost
\* the install race closing it, or the Release of its handle closing it (a
\* Releasedir of the handle is not the claim's case).
C12_ReadersClosed ==
    [][\A i \in DOMAIN readers \ DOMAIN readers' :
          readers[i].closer /\ readers[i].open
             => \E t \in Threads :
                   \/ th[t].pc = "read_at" /\ th[t].closer = i
                   \/ /\ th[t].pc = "rel_close" /\ th'[t].pc = "done"
                      /\ heap[th[t].ptr].reader = i
                      /\ th[t].op = "Release" => th'[t].log[1] = "Close"]_vars

\* Thread t holds fs.lock, in write or in read mode.
Holds(lk, t) == lk.w = t \/ t \in lk.r

\* C13: a step in which an operation calls the provider (its call log
\* grows) is taken while that operation holds fs.lock in neither mode, and
\* leaves the lock as it is.
C13_NoCallUnderLock ==
    [][\A t \in Threads :
          th'[t].log /= th[t].log /\ th'[t].log /= <<>>
             => ~Holds(lock, t) /\ lock' = lock]_vars

\* A Read lost the install race, closed its reader and read from the
\* installed one, while the other thread is inside a locked section.
C13_CallsBesideLock ==
    \E t \in Threads, u \in Threads :
        /\ th[t].op = "Read" /\ th[t].pc = "done"
        /\ th[t].log = <<"GetBlobReader", "Close", "ReadAt">>
        /\ Holds(lock, u)

\* The calls of log from call i on keep the order of release, starting with
\* an owner open (o) and a repository open (r): a repository is closed
\* while open, an owner while open and after its repository, and in the end
\* both are closed.
RECURSIVE InOrder(_, _, _, _)
InOrder(log, i, o, r) ==
    IF i > Len(log) THEN ~o /\ ~r
    ELSE CASE log[i] = "OpenOwner" -> ~o /\ InOrder(log, i + 1, TRUE, r)
           [] log[i] = "OpenRepository" ->
                  o /\ ~r /\ InOrder(log, i + 1, o, TRUE)
           [] log[i] = "CloseRepository" ->
                  r /\ InOrder(log, i + 1, o, FALSE)
           [] log[i] = "CloseOwner" ->
                  o /\ ~r /\ InOrder(log, i + 1, FALSE, r)
           [] OTHER -> InOrder(log, i + 1, o, r)

\* C14: the step of Release or Releasedir that releases an obstack closes
\* the attached reader if it has a Close, then the repository, then the
\* owner, each once and nothing else; and a Getattr, Readlink or Readpath,
\* or an Open or Opendir that fails, has closed by its end each repository
\* and owner it opened, the repository before its owner.
C14_ReleaseOrder ==
    [][\A t \in Threads :
          /\ th[t].pc = "rel_close" /\ th'[t].pc = "done"
                => LET obs == heap[th[t].ptr]
                   IN  th'[t].log =
                          (IF obs.reader /= NoReader
                                 /\ readers[obs.reader].closer
                           THEN <<"Close">> ELSE <<>>)
                          \o (IF obs.repository /= Nil
                              THEN <<"CloseRepository">> ELSE <<>>)
                          \o (IF obs.owner /= Nil
                              THEN <<"CloseOwner">> ELSE <<>>)
          /\ th[t].pc /= "done" /\ th'[t].pc = "done"
                /\ \/ th'[t].op \in {"Getattr", "Readlink", "Readpath"}
                   \/ th'[t].op \in {"Open", "Opendir"} /\ th'[t].errc /= 0
                => InOrder(th'[t].log, 1, FALSE, FALSE)]_vars

\* C15: every obstack in the handle table has an owner if it has a
\* repository, a repository if it has a ref, a ref if it has an entry, and,
\* if it has a reader, an entry that is a regular file.
C15_SlotOrder ==
    \A h \in DOMAIN openmap :
        LET obs == heap[openmap[h]]
        IN  /\ obs.repository /= Nil => obs.owner /= Nil
            /\ obs.ref /= Nil => obs.repository /= Nil
            /\ obs.entry /= Nil => obs.ref /= Nil
            /\ obs.reader /= NoReader
                  => obs.entry /= Nil /\ Fmt(EntryMode(obs.entry)) = S_IFREG

\* A handle at the depth of an entry has a reader attached by a Read, and
\* a Read on it has returned.
C15_ReaderAttached ==
    \E h \in DOMAIN openmap :
        /\ heap[openmap[h]].reader /= NoReader
        /\ heap[openmap[h]].entry = "d/f"
        /\ th["t1"].op = "Read" /\ th["t1"].pc = "done" /\ th["t1"].fh = h

\* C16: a Read never faults: on every handle Open or Opendir has issued, and
\* in every race to install a reader, it ends with a byte count or an
\* errno.
C16_ReadNeverFaults ==
    \A t \in Threads : th[t].op = "Read" => th[t].pc /= "panic"

\* C17: a Readdir whose fill returns false at its call number stop, be it
\* for ".", for ".." or for a child, has called fill stop times and no more.
C17_FillStops ==
    \A t \in Threads :
        th[t].op = "Readdir" /\ th[t].pc = "done" /\ th[t].ok
              /\ th[t].stop /= 0
           => Len(th[t].filled) <= th[t].stop

\* C18: a Getattr resolves again only if its path as given ends with "/."
\* and the resolution before gave a link target; it resolves again at most
\* 16 times; between two resolutions, and at its end, every owner and
\* repository it opened is closed; it ends, whatever the provider holds; and
\* for a path that does not end with "/." it resolves once.
C18_GetattrRetries ==
    /\ [][\A t \in Threads :
             /\ th[t].pc = "idle" /\ th'[t].op = "Getattr"
                   => /\ th'[t].resolve = HasSuffix(th'[t].path, <<"/", ".">>)
                      /\ th'[t].retries = 0 /\ th'[t].opens = 1
             /\ th[t].pc = "getattr_attr" /\ th'[t].pc = "getattr_retry"
                   => /\ th[t].resolve /\ th'[t].target /= <<>>
                      /\ th'[t].retries = th[t].retries + 1
                      /\ th'[t].retries <= 16
                      /\ InOrder(th'[t].log, 1, FALSE, FALSE)
             /\ th[t].pc = "getattr_retry" /\ th'[t].pc /= "getattr_retry"
                   => th'[t].opens = th[t].opens + 1]_vars
    /\ [](\A t \in Threads :
             th[t].op = "Getattr" /\ th[t].pc = "done"
                => /\ th[t].opens = th[t].retries + 1
                   /\ ~th[t].resolve => th[t].opens = 1
                   /\ InOrder(th[t].log, 1, FALSE, FALSE))
    /\ \A t \in Threads : th[t].op = "Getattr" ~> th[t].pc = "done"

\* A Getattr of a link that points to itself, asked with "/.", has ended
\* after 16 retries.
C18_CyclicLink ==
    /\ th["t1"].op = "Getattr" /\ th["t1"].pc = "done"
    /\ th["t1"].retries = 16 /\ th["t1"].opens = 17
    /\ th["t1"].errc = 0

\* C19: a Getattr, Readlink, Opendir, Open, Readdir or Read in which a
\* provider call failed returns -ENOENT if the call failed with ErrNotFound
\* and -EIO if it failed with another error.
C19_ErrorsSurfaced ==
    \A t \in Threads :
        /\ th[t].op \in {"Getattr", "Readlink", "Opendir", "Open", "Readdir",
                         "Read"}
        /\ th[t].pc = "done" /\ th[t].perr /= "nil"
        => th[t].errc = (IF th[t].perr = "ErrNotFound" THEN -ENOENT ELSE -EIO)

\* C20: every handle Open or Opendir has returned is not zero, the first
\* one after construction included.
C20_HandlesNonZero ==
    \A i \in 1..Len(issued) : issued[i] /= 0

\* C20, amended: the handles Open and Opendir return are 0, 1, 2, ... in
\* the order they are issued; the first one after construction is 0.
C20_HandlesFromZero ==
    \A i \in 1..Len(issued) : issued[i] = i - 1

\* The first Open or Opendir after construction has returned, with handle
\* 0, and a second one with handle 1.
C20_FirstHandle ==
    /\ Len(issued) = 2
    /\ \E t \in Threads :
          /\ th[t].op \in {"Open", "Opendir"} /\ th[t].pc = "done"
          /\ th[t].errc = 0 /\ th[t].fh = 0

=============================================================================
